---------------------------- MODULE Spec2Model ----------------------------
(***************************************************************************)
(* Forward-kinematics demo (src/src/main.rs): three joints driven by       *)
(* sliders, nine body segments posed every frame by the Bevy system        *)
(* transform_ui from the product of the joints' dual quaternions.          *)
(*                                                                         *)
(* Numbers.  Every f32 of the program is carried as an integer number of   *)
(* thousandths (the sliders step by 0.001), rounded to nearest after each  *)
(* product, quotient and trigonometric call.  Angles handed to sin and cos *)
(* are carried in units of 1e-4 rad.  "Equal within tolerance" in the      *)
(* properties below means equal up to Tol thousandths per component.       *)
(***************************************************************************)
EXTENDS Integers, Sequences, FiniteSets

VARIABLES
    ui_state,        \* Res<UiState>: joint 1..3 -> DualQuatCtrls
    transformables,  \* the Transformable component of each spawned segment
    transform,       \* the Transform component of each spawned segment
    dq,              \* local dq of the last frame, per segment it reached
    quat_trans,      \* local quat_trans of the last frame, per segment
    panicked,        \* the system panicked: the app is gone
    input,           \* what the user did in the egui window in the last frame
    frames,          \* how many times the Update schedule has run
    layout           \* component order static_math gives new_from_array

vars == <<ui_state, transformables, transform, dq, quat_trans, panicked,
          input, frames, layout>>

---------------------------------------------------------------------------
(* f32 arithmetic in thousandths *)

Scale == 1000

\* n / d rounded to nearest (d > 0)
Rnd(n, d) == (n + d \div 2) \div d

\* a * b of two f32 values
FMul(a, b) == Rnd(a * b, Scale)

Abs(n) == IF n < 0 THEN -n ELSE n

RECURSIVE ISqrtFrom(_, _)
ISqrtFrom(n, r) == IF r * r <= n THEN r ELSE ISqrtFrom(n, (r + n \div r) \div 2)

\* the largest r with r * r inside the 32-bit integers
SqrtCap == 46340

\* floor of the square root (Newton's iteration from above)
ISqrt(n) == IF n <= 0 THEN 0 ELSE ISqrtFrom(n, IF n < SqrtCap THEN n ELSE SqrtCap)

---------------------------------------------------------------------------
(* f32::sin and f32::cos; the argument in units of 1e-4 rad, the result in *)
(* thousandths                                                             *)

AngPi == 31416
AngTwoPi == 62832
AngHalfPi == 15708
AngScale == 10000

\* sin on [0, pi/2]: the Taylor polynomial to the ninth power, in 1e-4 units
SinFirstQuadrant(y) ==
    LET y2 == Rnd(y * y, AngScale)
        t3 == Rnd(y * y2, 6 * AngScale)
        t5 == Rnd(t3 * y2, 20 * AngScale)
        t7 == Rnd(t5 * y2, 42 * AngScale)
        t9 == Rnd(t7 * y2, 72 * AngScale)
    IN  Rnd(y - t3 + t5 - t7 + t9, AngScale \div Scale)

Sin(a) ==
    LET r == a % AngTwoPi
    IN  IF r <= AngHalfPi THEN SinFirstQuadrant(r)
        ELSE IF r <= AngPi THEN SinFirstQuadrant(AngPi - r)
        ELSE IF r <= AngPi + AngHalfPi THEN -SinFirstQuadrant(r - AngPi)
        ELSE -SinFirstQuadrant(AngTwoPi - r)

Cos(a) == Sin(a + AngHalfPi)

\* an f32 (thousandths) read as an angle (1e-4 rad)
ToAngle(x) == x * (AngScale \div Scale)

---------------------------------------------------------------------------
(* glam::Vec3, as a triple *)

Vec3Zero == <<0, 0, 0>>
Vec3One == <<Scale, Scale, Scale>>

VAdd(a, b) == <<a[1] + b[1], a[2] + b[2], a[3] + b[3]>>

\* Vec3 * f32
VScale(a, k) == <<FMul(a[1], k), FMul(a[2], k), FMul(a[3], k)>>

\* Vec3 * Vec3, component by component
VMul(a, b) == <<FMul(a[1], b[1]), FMul(a[2], b[2]), FMul(a[3], b[3])>>

VDot(a, b) == Rnd(a[1] * b[1] + a[2] * b[2] + a[3] * b[3], Scale)

VCross(a, b) ==
    <<Rnd(a[2] * b[3] - a[3] * b[2], Scale),
      Rnd(a[3] * b[1] - a[1] * b[3], Scale),
      Rnd(a[1] * b[2] - a[2] * b[1], Scale)>>

---------------------------------------------------------------------------
(* static_math::Quaternion<f32>: scalar part q0 (real()), vector part q     *)
(* (imag()); static_math::DualQuaternion<f32>: the pair real(), dual()      *)

SQuat(q0, q) == [q0 |-> q0, q |-> q]

\* Quaternion * Quaternion: the Hamilton product
SQuatMul(a, b) ==
    SQuat(Rnd(a.q0 * b.q0 - (a.q[1] * b.q[1] + a.q[2] * b.q[2] + a.q[3] * b.q[3]),
              Scale),
          <<Rnd(a.q0 * b.q[1] + b.q0 * a.q[1] + a.q[2] * b.q[3] - a.q[3] * b.q[2], Scale),
            Rnd(a.q0 * b.q[2] + b.q0 * a.q[2] + a.q[3] * b.q[1] - a.q[1] * b.q[3], Scale),
            Rnd(a.q0 * b.q[3] + b.q0 * a.q[3] + a.q[1] * b.q[2] - a.q[2] * b.q[1], Scale)>>)

SQuatAdd(a, b) == SQuat(a.q0 + b.q0, VAdd(a.q, b.q))

\* Quaternion * f32
SQuatScale(a, k) == SQuat(FMul(a.q0, k), VScale(a.q, k))

SQuatConj(a) == SQuat(a.q0, <<-a.q[1], -a.q[2], -a.q[3]>>)

\* |a|^2, in thousandths
SQuatNormSq(a) ==
    Rnd(a.q0 * a.q0 + a.q[1] * a.q[1] + a.q[2] * a.q[2] + a.q[3] * a.q[3], Scale)

DualQuat(real, dual) == [real |-> real, dual |-> dual]

\* DualQuaternion::<f32>::one()
DQOne == DualQuat(SQuat(Scale, Vec3Zero), SQuat(0, Vec3Zero))

\* DualQuaternion * DualQuaternion
DQMul(a, b) ==
    DualQuat(SQuatMul(a.real, b.real),
             SQuatAdd(SQuatMul(a.real, b.dual), SQuatMul(a.dual, b.real)))

(* DualQuaternion::new_from_array([f32; 7]).  The crate is not part of the  *)
(* repository, and the two readings of its argument differ:                 *)
(*   "xyzw": as the comments at the call say, the real quaternion's x, y,   *)
(*           z, then its w, then the dual part's x, y, z;                   *)
(*   "wxyz": the crate's own scalar-first quaternion followed by a          *)
(*           translation t, the dual part being (t / 2) * real.             *)
(* Both are carried: layout is chosen once, before the first frame.         *)
Layouts == {"xyzw", "wxyz"}

NewFromArray(arr, lay) ==
    IF lay = "xyzw"
    THEN DualQuat(SQuat(arr[4], <<arr[1], arr[2], arr[3]>>),
                  SQuat(0, <<arr[5], arr[6], arr[7]>>))
    ELSE LET real == SQuat(arr[1], <<arr[2], arr[3], arr[4]>>)
             t == SQuat(0, <<arr[5], arr[6], arr[7]>>)
         IN  DualQuat(real, SQuatMul(SQuatScale(t, Scale \div 2), real))

---------------------------------------------------------------------------
(* glam::Quat and bevy's Transform *)

GQuat(x, y, z, w) == [x |-> x, y |-> y, z |-> z, w |-> w]

GQuatIdentity == GQuat(0, 0, 0, Scale)

\* InternalFrom<static_math::Quaternion<f32>> for Quat
ExtFrom(quaternion) ==
    LET real == quaternion.q0
        imaginary == quaternion.q
    IN  GQuat(imaginary[1], imaginary[2], imaginary[3], real)

\* Quat::xyz
Xyz(g) == <<g.x, g.y, g.z>>

\* Quat::length, in thousandths
GQuatLength(g) == ISqrt(g.x * g.x + g.y * g.y + g.z * g.z + g.w * g.w)

\* Quat::normalize: the quotient by the length.  A zero length gives NaN
\* components in the program; no frame of the model reaches one (see
\* NormalizeDefined), and the quaternion is then left as it is.
Normalize(g) ==
    LET len == GQuatLength(g)
    IN  IF len = 0 THEN g
        ELSE GQuat(Rnd(g.x * Scale, len), Rnd(g.y * Scale, len),
                   Rnd(g.z * Scale, len), Rnd(g.w * Scale, len))

\* Quat * Quat
GQuatMul(a, b) ==
    ExtFrom(SQuatMul(SQuat(a.w, Xyz(a)), SQuat(b.w, Xyz(b))))

\* Quat * Vec3: rhs * (w*w - b.b) + b * (rhs.b * 2) + (b x rhs) * (w * 2)
GQuatMulVec3(g, rhs) ==
    LET w == g.w
        b == Xyz(g)
        b2 == VDot(b, b)
    IN  VAdd(VAdd(VScale(rhs, FMul(w, w) - b2), VScale(b, VDot(rhs, b) * 2)),
             VScale(VCross(b, rhs), w * 2))

Trans(translation, rotation, scale) ==
    [translation |-> translation, rotation |-> rotation, scale |-> scale]

\* Transform::default(), Transform::from_translation(Vec3::ZERO)
TransformIdentity == Trans(Vec3Zero, GQuatIdentity, Vec3One)

FromTranslation(v) == Trans(v, GQuatIdentity, Vec3One)

\* Transform::transform_point
TransformPoint(t, point) ==
    VAdd(GQuatMulVec3(t.rotation, VMul(t.scale, point)), t.translation)

\* Transform * Transform (Transform::mul_transform)
TMul(a, b) ==
    Trans(TransformPoint(a, b.translation),
          GQuatMul(a.rotation, b.rotation),
          VMul(a.scale, b.scale))

---------------------------------------------------------------------------
(* The controls *)

\* DualQuatCtrls::default: theta 0.001
ThetaDefault == 1

Ctrls(theta, rot, rigid_body_comps) ==
    [theta |-> theta, rot |-> rot, rigid_body_comps |-> rigid_body_comps]

\* DefaultCtrls as #[derive(Default)] would give it: theta 0.0
DefaultCtrlsDerived == Ctrls(0, Vec3Zero, Vec3Zero)

DefaultCtrls == Ctrls(ThetaDefault, Vec3Zero, Vec3Zero)

Joints == 1 .. 3

\* UiState::default (init_resource): dual_quat1, dual_quat2, dual_quat3
DefaultUiState == [j \in Joints |-> DefaultCtrls]

\* the seven sliders of one joint, in the order dual_quat_sliders adds them:
\* theta, rot.x, rot.y, rot.z, rigid_body_comps.x, .y, .z
Sliders == 1 .. 7

SliderGet(c, f) ==
    IF f = 1 THEN c.theta
    ELSE IF f <= 4 THEN c.rot[f - 1]
    ELSE c.rigid_body_comps[f - 4]

SliderSet(c, f, v) ==
    IF f = 1 THEN [c EXCEPT !.theta = v]
    ELSE IF f <= 4 THEN [c EXCEPT !.rot[f - 1] = v]
    ELSE [c EXCEPT !.rigid_body_comps[f - 4] = v]

\* what a slider can be dragged to (thousandths, inside -100.0 ..= 100.0):
\* theta 0, 0.001 or 1.047; an axis component 0 or 10.472; an offset 0 or 2.0
ThetaVals == {0, ThetaDefault, 1047}
RotVals == {0, 10472}
OffsetVals == {0, 2000}

SliderVals(f) == IF f = 1 THEN ThetaVals ELSE IF f <= 4 THEN RotVals ELSE OffsetVals

\* what the user did in the window during one frame
NoInput == [kind |-> "none", joint |-> 0, field |-> 0, value |-> 0]
SliderInput(j, f, v) == [kind |-> "slider", joint |-> j, field |-> f, value |-> v]
ResetInput(j) == [kind |-> "reset", joint |-> j, field |-> 0, value |-> 0]

\* the closure dual_quat_sliders for joint j: the sliders, then the button
DualQuatSliders(dq_ctrls, j, inp) ==
    LET dragged == IF inp.kind = "slider" /\ inp.joint = j
                   THEN SliderSet(dq_ctrls, inp.field, inp.value)
                   ELSE dq_ctrls
    IN  IF inp.kind = "reset" /\ inp.joint = j THEN DefaultCtrls ELSE dragged

\* the egui window: the three slider groups
WindowShow(ui, inp) == [j \in Joints |-> DualQuatSliders(ui[j], j, inp)]

---------------------------------------------------------------------------
(* The joint parameterisation *)

\* let rot = ctrls.rot * 100.0
RotGain == 100

\* (theta * rot) / 2.0 as an angle: thousandths * thousandths -> 1e-4 rad
HalfProductAngle(theta, rot) == Rnd(theta * rot, 2 * ((Scale * Scale) \div AngScale))

\* theta / 2.0 as an angle
HalfAngle(theta) == Rnd(ToAngle(theta), 2)

\* the closure dq_from_ctrls
DqFromCtrls(ctrls) ==
    LET rot == [i \in 1 .. 3 |-> ctrls.rot[i] * RotGain]
        theta == ctrls.theta
        real_quat == [i \in 1 .. 3 |-> Sin(HalfProductAngle(theta, rot[i]))]
        real_quat_w == Cos(HalfAngle(theta))
        imag_quat == VScale(VScale(ctrls.rigid_body_comps, Scale \div 2),
                            Cos(HalfAngle(theta)))
    IN  NewFromArray(<<real_quat[1], real_quat[2], real_quat[3], real_quat_w,
                       imag_quat[1], imag_quat[2], imag_quat[3]>>, layout)

---------------------------------------------------------------------------
(* setup *)

\* SetupLoop with an inclusive range, for i in 0..=3
SetupLoopInclusive == [k \in 1 .. 4 |-> k - 1]

\* for i in 0..3
SetupLoop == [k \in 1 .. 3 |-> k - 1]

\* Transform::from_xyz(0.0, 0.0, -2.0)
ArmZ == -2

\* one spawn: the Transform and the Transformable of the new entity
Spawn(t, node_transform, id) ==
    [transform |-> t, transformable |-> [node_transform |-> node_transform, id |-> id]]

\* the three spawns of iteration i: base, middle, arm.  Transformable::default()
\* has the identity node_transform; with_id(i) sets the id
SpawnsOf(i) ==
    LET tr == FromTranslation(Vec3Zero)
        arm_transform == FromTranslation(<<0, 0, ArmZ * Scale>>)
    IN  <<Spawn(tr, TransformIdentity, i),
          Spawn(tr, TransformIdentity, i),
          Spawn(arm_transform, arm_transform, i)>>

\* every Transformable entity setup spawns, in spawn order
SetupSpawns ==
    [k \in 1 .. 3 * Len(SetupLoop) |->
        SpawnsOf(SetupLoop[((k - 1) \div 3) + 1])[((k - 1) % 3) + 1]]

Segs == DOMAIN transformables

---------------------------------------------------------------------------
(* transform_ui: the loop over the query *)

\* MatchId with the factors of the longer products out of order
MatchIdSwapped(id, base_dual_quat, dq1, dq2, dq3) ==
    CASE id = 0 -> [panic |-> FALSE, dq |-> DQMul(base_dual_quat, dq1)]
      [] id = 1 -> [panic |-> FALSE, dq |-> DQMul(DQMul(base_dual_quat, dq2), dq1)]
      [] id = 2 -> [panic |-> FALSE,
                    dq |-> DQMul(DQMul(DQMul(base_dual_quat, dq1), dq3), dq2)]
      [] OTHER -> [panic |-> TRUE, dq |-> base_dual_quat]

\* MatchId with the first arm reaching one joint too far
MatchIdLeak(id, base_dual_quat, dq1, dq2, dq3) ==
    CASE id = 0 -> [panic |-> FALSE, dq |-> DQMul(DQMul(base_dual_quat, dq1), dq2)]
      [] id = 1 -> [panic |-> FALSE, dq |-> DQMul(DQMul(base_dual_quat, dq1), dq2)]
      [] id = 2 -> [panic |-> FALSE,
                    dq |-> DQMul(DQMul(DQMul(base_dual_quat, dq1), dq2), dq3)]
      [] OTHER -> [panic |-> TRUE, dq |-> base_dual_quat]

\* MatchId with a last arm that takes every other id for the whole chain
MatchIdFallThrough(id, base_dual_quat, dq1, dq2, dq3) ==
    CASE id = 0 -> [panic |-> FALSE, dq |-> DQMul(base_dual_quat, dq1)]
      [] id = 1 -> [panic |-> FALSE, dq |-> DQMul(DQMul(base_dual_quat, dq1), dq2)]
      [] OTHER -> [panic |-> FALSE,
                   dq |-> DQMul(DQMul(DQMul(base_dual_quat, dq1), dq2), dq3)]

\* match transformable.id { 0 => .., 1 => .., 2 => .., _ => panic!() }
MatchId(id, base_dual_quat, dq1, dq2, dq3) ==
    CASE id = 0 -> [panic |-> FALSE, dq |-> DQMul(base_dual_quat, dq1)]
      [] id = 1 -> [panic |-> FALSE, dq |-> DQMul(DQMul(base_dual_quat, dq1), dq2)]
      [] id = 2 -> [panic |-> FALSE,
                    dq |-> DQMul(DQMul(DQMul(base_dual_quat, dq1), dq2), dq3)]
      [] OTHER -> [panic |-> TRUE, dq |-> base_dual_quat]

\* let quat_trans = Transform { rotation, translation, scale }
QuatTrans(d) ==
    Trans(Xyz(ExtFrom(d.dual)), Normalize(ExtFrom(d.real)), Vec3One)

\* id as f32 * 5.0
ArmSpacing == 5

\* ArmTrans without the offset of the later arms
ArmTransNoOffset(id) == [panic |-> FALSE, t |-> TransformIdentity]

\* match transformable.id { 0 => .., 1.. => .., _ => panic!() }
ArmTrans(id) ==
    CASE id = 0 -> [panic |-> FALSE, t |-> TransformIdentity]
      [] id >= 1 -> [panic |-> FALSE,
                     t |-> FromTranslation(<<0, 0, id * ArmSpacing * Scale>>)]
      [] OTHER -> [panic |-> TRUE, t |-> TransformIdentity]

\* FinalTransform built on the pose of the frame before
FinalTransformIncremental(old, qt, arm_trans, node_transform) ==
    TMul(TMul(qt, arm_trans), old)

\* *transform = quat_trans * arm_trans * transformable.node_transform
FinalTransform(old, qt, arm_trans, node_transform) ==
    TMul(TMul(qt, arm_trans), node_transform)

\* TransformablesAfter with the pose written back into node_transform
TransformablesOverwritten(ts, poses) ==
    [s \in DOMAIN ts |-> [ts[s] EXCEPT !.node_transform = poses[s]]]

\* the Transformable components after a frame: the loop reads them only
TransformablesAfter(ts, poses) == ts

\* the loop over the query, which yields the entities in spawn order: what
\* it leaves in dq, quat_trans and transform, and whether it panicked.  A
\* panic ends the loop: the entities after it are not reached.
QueryLoop(ts, olds, dq1, dq2, dq3) ==
    LET base_dual_quat == DQOne
    IN  \* the bounded choices bind each intermediate value once
        CHOOSE r \in
          { [dq |-> [s \in done |-> m[s].dq],
             quat_trans |-> qt,
             transform |-> [s \in DOMAIN ts |->
                              IF s \in done
                              THEN FinalTransform(olds[s], qt[s], a[s].t,
                                                  ts[s].node_transform)
                              ELSE olds[s]],
             panicked |-> (done # DOMAIN ts)] :
            <<m, a, done, qt>> \in
              { <<m, a, done, [s \in done |-> QuatTrans(m[s].dq)]>> :
                <<m, a, done>> \in
                  { <<m, a, {s \in DOMAIN ts :
                               \A b \in DOMAIN ts :
                                  (m[b].panic \/ a[b].panic) => s < b}>> :
                    <<m, a>> \in
                      { <<[s \in DOMAIN ts |->
                             MatchId(ts[s].id, base_dual_quat, dq1, dq2, dq3)],
                          [s \in DOMAIN ts |-> ArmTrans(ts[s].id)]>> } } } } : TRUE

\* the frames the model follows the app for
MaxFrames == 2

\* one whole run of the system with the user's input inp
Frame(inp) ==
    /\ ~panicked
    /\ frames < MaxFrames
    /\ frames' = frames + 1
    /\ \E ui \in {WindowShow(ui_state, inp)} :
      \E dqs \in {[j \in Joints |-> DqFromCtrls(ui[j])]} :
        \E r \in {QueryLoop(transformables, transform, dqs[1], dqs[2], dqs[3])} :
          /\ ui_state' = ui
          /\ input' = inp
          /\ dq' = r.dq
          /\ quat_trans' = r.quat_trans
          /\ transform' = r.transform
          /\ transformables' = TransformablesAfter(transformables, r.transform)
          /\ panicked' = r.panicked
          /\ UNCHANGED layout

\* a frame in which the user touches nothing
FrameIdle == Frame(NoInput)

\* a frame in which the user drags one slider to another value
FrameSlider ==
    \E j \in Joints, f \in Sliders :
        \E v \in SliderVals(f) \ {SliderGet(ui_state[j], f)} :
            Frame(SliderInput(j, f, v))

\* a frame in which the user clicks one Reset button
FrameReset == \E j \in Joints : Frame(ResetInput(j))

Next == FrameIdle \/ FrameSlider \/ FrameReset

\* the state when the Startup schedule has run: setup's entities, the default
\* UiState, no frame yet
InitWith(spawns) ==
    /\ ui_state = DefaultUiState
    /\ transformables = [s \in DOMAIN spawns |-> spawns[s].transformable]
    /\ transform = [s \in DOMAIN spawns |-> spawns[s].transform]
    /\ dq = <<>>
    /\ quat_trans = <<>>
    /\ panicked = FALSE
    /\ input = NoInput
    /\ frames = 0
    /\ layout \in Layouts

Init == InitWith(SetupSpawns)

Spec == Init /\ [][Next]_vars

\* the last frame reached every segment
Evaluated == Segs # {} /\ DOMAIN dq = Segs

---------------------------------------------------------------------------
(* The same system over a segment table setup did not build: one segment   *)
(* may carry an id that names no joint.                                    *)

\* the largest id tried
MaxId == 3

InitAnyId ==
    \E s \in DOMAIN SetupSpawns :
      \E k \in {SetupSpawns[s].transformable.id} \cup (3 .. MaxId) :
        InitWith([SetupSpawns EXCEPT ![s].transformable.id = k])

SpecAnyId == InitAnyId /\ [][Next]_vars

---------------------------------------------------------------------------
(* What the properties are stated with *)

\* the tolerance of "equal within tolerance", in thousandths
Tol == Scale \div 500

Near(a, b) == Abs(a - b) <= Tol

VecNear(a, b) == \A i \in 1 .. 3 : Near(a[i], b[i])

GQuatNear(a, b) == Near(a.x, b.x) /\ Near(a.y, b.y) /\ Near(a.z, b.z) /\ Near(a.w, b.w)

TransformNear(a, b) ==
    /\ VecNear(a.translation, b.translation)
    /\ GQuatNear(a.rotation, b.rotation)
    /\ VecNear(a.scale, b.scale)

\* identity * dq_0 * ... * dq_(n-1), from the left, of the joints of ui
RECURSIVE ChainProduct(_, _)
ChainProduct(ui, n) ==
    IF n = 0 THEN DQOne ELSE DQMul(ChainProduct(ui, n - 1), DqFromCtrls(ui[n]))

\* translation_part(dq): the vector part of 2 * dual * conjugate(real)
TranslationPart(d) == SQuatScale(SQuatMul(d.dual, SQuatConj(d.real)), 2 * Scale).q

\* one joint's controls at rest: theta 0.001, axis 0, offset 0
RestCtrls == Ctrls(ThetaDefault, Vec3Zero, Vec3Zero)

AtRest == \A j \in Joints : ui_state[j] = RestCtrls

IdOf(s) == transformables[s].id

\* Quat::normalize is never handed a zero quaternion in the frames modelled
NormalizeDefined == \A s \in DOMAIN dq : GQuatLength(ExtFrom(dq[s].real)) > 0

---------------------------------------------------------------------------
(* The claims *)

\* C1: in every frame, the cumulative transform used for a segment with
\* chain index id is the left-associative product one * dq_0 * ... * dq_id of
\* the dual quaternions of the current controls of joints 0..=id, in order.
C1_CumulativeIsChainProduct ==
    \A s \in DOMAIN dq : dq[s] = ChainProduct(ui_state, IdOf(s) + 1)

\* a frame has posed a segment of index 1 while joints 0 and 1 do not commute
C1_Witness ==
    /\ Evaluated
    /\ \E s \in Segs : IdOf(s) = 1
    /\ DQMul(DqFromCtrls(ui_state[1]), DqFromCtrls(ui_state[2]))
         # DQMul(DqFromCtrls(ui_state[2]), DqFromCtrls(ui_state[1]))

\* C2: the pose of a segment with chain index i depends only on the controls
\* of joints 0..=i: a frame whose controls agree with the frame before on
\* those joints writes the same pose to the segment, whatever the later
\* joints' controls became.
C2_PoseIgnoresLaterJoints ==
    [][\A s \in Segs :
          (/\ Evaluated
           /\ Evaluated'
           /\ \A j \in 1 .. IdOf(s) + 1 : ui_state'[j] = ui_state[j])
          => transform'[s] = transform[s]]_vars

\* joint 0 was dragged in one frame and the last joint in the next
C2_Witness ==
    /\ Evaluated
    /\ input.kind = "slider" /\ input.joint = 3
    /\ ui_state[1] # RestCtrls
    /\ ui_state[3] # RestCtrls
    /\ \E s \in Segs : IdOf(s) = 0 /\ transform[s] # transformables[s].node_transform

\* C3: the pose exported from a cumulative dq has translation
\* translation_part(dq), the vector part of 2 * dq.dual * conjugate(dq.real),
\* rotation the normalized dq.real, and scale (1, 1, 1).
C3_PoseExport ==
    \A s \in DOMAIN quat_trans :
        /\ VecNear(quat_trans[s].translation, TranslationPart(dq[s]))
        /\ quat_trans[s].rotation = Normalize(ExtFrom(dq[s].real))
        /\ quat_trans[s].scale = Vec3One

C5_UnitReal ==
    \A s \in DOMAIN dq : Near(SQuatNormSq(dq[s].real), Scale)

\* C6: a segment whose chain index is outside 0..2 is fatal: the frame that
\* reaches it panics before a dq, a quat_trans or a pose is made for it, and
\* nothing runs after the panic.
C6_BadIdIsFatal ==
    [][/\ ~panicked
       /\ LET bad == {s \in Segs : IdOf(s) \notin 0 .. 2}
          IN  /\ (bad = {}) = ~panicked'
              /\ \A b \in bad :
                    (\A c \in bad : b <= c) =>
                        /\ b \notin DOMAIN dq'
                        /\ b \notin DOMAIN quat_trans'
                        /\ transform'[b] = transform[b]
                        /\ \A s \in Segs : s < b => s \in DOMAIN dq']_vars

\* a frame panicked at a segment after posing the segments before it
C6_Witness ==
    /\ panicked
    /\ DOMAIN dq # {}
    /\ \E s \in Segs : IdOf(s) \notin 0 .. 2 /\ s \notin DOMAIN dq

\* C7: after startup the segments are fixed: none is created or destroyed,
\* and each keeps the chain index and the static local transform setup gave
\* it; a frame changes a segment's pose only.
C7_SegmentsFixed ==
    /\ transformables = [s \in DOMAIN SetupSpawns |-> SetupSpawns[s].transformable]
    /\ [][/\ transformables' = transformables
          /\ DOMAIN transform' = DOMAIN transform]_vars

\* a frame has changed a pose and left the segment's node_transform behind
C7_Witness ==
    /\ Evaluated
    /\ \E s \in Segs : transform[s] # transformables[s].node_transform

\* C8: the pose a frame writes is a function of the current controls, the
\* segment's chain index and its static local transform only: whatever the
\* earlier controls and poses were, a segment's pose is the one computed
\* afresh from those three.
C8_PoseRecomputed ==
    Evaluated =>
        \A s \in Segs :
            transform[s] =
                TMul(TMul(QuatTrans(ChainProduct(ui_state, IdOf(s) + 1)),
                          IF IdOf(s) = 0 THEN TransformIdentity
                          ELSE FromTranslation(<<0, 0, 5 * IdOf(s) * Scale>>)),
                     transformables[s].node_transform)

\* the rest controls have been reached again, by dragging back to its default
\* a slider an earlier frame had moved, and the poses are rewritten
C8_Witness ==
    /\ Evaluated
    /\ AtRest
    /\ input.kind = "slider"
    /\ frames > 1

\* C9: theta is 0.001, with axis and offset zero, in the initial state and
\* right after the joint's Reset; a Reset leaves the other two joints as they
\* were; and nothing else rewrites the controls: a dragged slider takes the
\* value dragged to (theta = 0 included) and every other slider keeps its own.
C9_ThetaDefaultAndReset ==
    /\ \A j \in Joints : ui_state[j] = RestCtrls
    /\ [][/\ input'.kind = "reset" =>
                /\ ui_state'[input'.joint] = RestCtrls
                /\ \A j \in Joints \ {input'.joint} : ui_state'[j] = ui_state[j]
          /\ input'.kind = "slider" =>
                \A j \in Joints, f \in Sliders :
                    SliderGet(ui_state'[j], f) =
                        IF j = input'.joint /\ f = input'.field
                        THEN input'.value
                        ELSE SliderGet(ui_state[j], f)
          /\ input'.kind = "none" => ui_state' = ui_state]_vars

\* a Reset of one joint while another joint is away from its defaults
C9_Witness ==
    /\ input.kind = "reset"
    /\ ui_state[input.joint] = RestCtrls
    /\ \E j \in Joints \ {input.joint} : ui_state[j].theta = 0

\* C10: from startup every segment's chain index is 0, 1 or 2, three
\* segments to each index, nine in all, so no frame panics: every frame
\* reaches every segment.
C10_IdsInRange ==
    /\ Cardinality(Segs) = 9
    /\ \A s \in Segs : IdOf(s) \in 0 .. 2
    /\ \A i \in 0 .. 2 : Cardinality({s \in Segs : IdOf(s) = i}) = 3
    /\ ~panicked
    /\ frames > 0 => Evaluated
    /\ \A s \in Segs : ~ArmTrans(IdOf(s)).panic

\* a frame has run over all nine segments
C10_Witness ==
    /\ Evaluated
    /\ input.kind = "slider"
    /\ Cardinality(DOMAIN quat_trans) = 9

=============================================================================
